---- MODULE Spec2Model ----
(***************************************************************************)
(* A model of src/main.py: the finance tracker's keyword ruleset           *)
(* (st.session_state.categories), its persistence in categories.json, the  *)
(* categorizer, the CSV normalizer and the "learn from override" feedback  *)
(* loop.                                                                   *)
(*                                                                         *)
(* Text is modelled as a sequence of one-character strings, so that        *)
(* str.lower(), str.strip() and the substring test `in` are computed.      *)
(* A Python dict is a sequence of <<key, value>> pairs in insertion order. *)
(* Amounts are integers counting hundredths.                               *)
(***************************************************************************)
EXTENDS Integers, Sequences, FiniteSets, TLC

VARIABLES categories, file, uploaded, df, writes, last

vars == <<categories, file, uploaded, df, writes, last>>

(***************************************************************************)
(* Bounds of the model.                                                    *)
(***************************************************************************)
\* longest keyword list a learn call may still extend (Spec, SpecSession)
MaxKeywords == 2
\* longest keyword list of a drawn ruleset (SpecCat)
CatMaxKeywords == 1
\* most rows of a drawn transaction table (SpecCat)
MaxRows == 1

(***************************************************************************)
(* Text.                                                                   *)
(***************************************************************************)
Uncategorized == <<"U","n","c","a","t","e","g","o","r","i","z","e","d">>
Food == <<"F","o","o","d">>
Shop == <<"S","h","o","p">>
Empty == <<>>

UPPER == <<"A","B","C","D","E","F","G","H","I","J","K","L","M",
           "N","O","P","Q","R","S","T","U","V","W","X","Y","Z">>
LOWER == <<"a","b","c","d","e","f","g","h","i","j","k","l","m",
           "n","o","p","q","r","s","t","u","v","w","x","y","z">>
Whitespace == {" ", "\t", "\n", "\r"}
Digits == <<"0","1","2","3","4","5","6","7","8","9">>

SetMin(S) == CHOOSE x \in S : \A y \in S : x <= y
SetMax(S) == CHOOSE x \in S : \A y \in S : x >= y

\* a sequence written as a function, as the tuple of its elements
AsTuple(f) == f \o <<>>

UpperSet == {UPPER[i] : i \in DOMAIN UPPER}
ToLower == [c \in UpperSet |-> LOWER[CHOOSE i \in DOMAIN UPPER : UPPER[i] = c]]

\* str.lower(), one character
LowerChar(c) == IF c \in UpperSet THEN ToLower[c] ELSE c

\* str.lower()
lower(s) == AsTuple([i \in 1..Len(s) |-> LowerChar(s[i])])

\* str.strip(): leading and trailing whitespace removed
strip(s) ==
    LET keep == {i \in 1..Len(s) : s[i] \notin Whitespace}
    IN  IF keep = {} THEN <<>> ELSE SubSeq(s, SetMin(keep), SetMax(keep))

\* Python's `sub in s` on strings
Contains(sub, s) ==
    \E i \in 0..(Len(s) - Len(sub)) : SubSeq(s, i + 1, i + Len(sub)) = sub

\* Python's `x in list`
InList(x, l) == \E i \in 1..Len(l) : l[i] = x

\* the sequences over S of length at most n; no element twice
SeqsUpTo(S, n) == UNION {[1..k -> S] : k \in 0..n}
Distinct(s) == \A i, j \in 1..Len(s) : s[i] = s[j] => i = j

(***************************************************************************)
(* dict: a sequence of <<key, value>> pairs, keys unique, insertion order. *)
(***************************************************************************)
Keys(d) == AsTuple([i \in 1..Len(d) |-> d[i][1]])
HasKey(d, k) == \E i \in 1..Len(d) : d[i][1] = k
Get(d, k) == d[CHOOSE i \in 1..Len(d) : d[i][1] = k][2]
\* d[k] = v: an existing key keeps its place, a new key goes last
Put(d, k, v) ==
    IF HasKey(d, k)
    THEN AsTuple([i \in 1..Len(d) |-> IF d[i][1] = k THEN <<k, v>> ELSE d[i]])
    ELSE Append(d, <<k, v>>)

\* st.session_state.categories on a first run
DefaultCategories == << <<Uncategorized, <<>>>> >>

(***************************************************************************)
(* categories.json: json.dump writes the dict as a token stream, json.load *)
(* parses one. A token is <<kind, text>>.                                  *)
(***************************************************************************)
Absent == << <<"absent", Empty>> >>
Tok(kind) == <<kind, Empty>>

RECURSIVE DumpList(_)
DumpList(l) ==
    IF l = <<>> THEN <<>> ELSE << <<"str", Head(l)>> >> \o DumpList(Tail(l))

RECURSIVE DumpItems(_)
DumpItems(d) ==
    IF d = <<>> THEN <<>>
    ELSE << <<"key", d[1][1]>>, Tok("[") >> \o DumpList(d[1][2])
         \o << Tok("]") >> \o DumpItems(Tail(d))

json_dump(d) == << Tok("{") >> \o DumpItems(d) \o << Tok("}") >>

\* The parser: state <<dict so far, open key or Empty marker, ok>>.
RECURSIVE ParseItems(_, _, _)
ParseItems(toks, d, open) ==
    \* open = <<>>: between items; open = <<k>>: inside the list of key k
    IF toks = <<>> THEN [ok |-> FALSE, value |-> d]
    ELSE LET t == Head(toks) IN
         IF open = <<>>
         THEN IF t[1] = "}" THEN [ok |-> Len(toks) = 1, value |-> d]
              ELSE IF t[1] = "key" /\ Len(toks) >= 2 /\ toks[2][1] = "["
                   THEN ParseItems(Tail(Tail(toks)), Put(d, t[2], <<>>), <<t[2]>>)
                   ELSE [ok |-> FALSE, value |-> d]
         ELSE IF t[1] = "]" THEN ParseItems(Tail(toks), d, <<>>)
              ELSE IF t[1] = "str"
                   THEN ParseItems(Tail(toks),
                                   Put(d, open[1], Append(Get(d, open[1]), t[2])),
                                   open)
                   ELSE [ok |-> FALSE, value |-> d]

\* json.load: [ok, value]; not ok is json.JSONDecodeError
json_load(toks) ==
    IF toks # <<>> /\ Head(toks)[1] = "{"
    THEN ParseItems(Tail(toks), <<>>, <<>>)
    ELSE [ok |-> FALSE, value |-> <<>>]

(***************************************************************************)
(* categorize_transactions. A row is [Details, Category, Amount, DC].      *)
(***************************************************************************)
\* line 25: df["Category"] = "Uncategorized"
ResetCategory(d) ==
    AsTuple([i \in 1..Len(d) |-> [d[i] EXCEPT !.Category = Uncategorized]])

SkippedOnlyEmpty(category, keywords) == keywords = <<>>
\* line 28: the categories the loop passes over
Skipped(category, keywords) == category = Uncategorized \/ keywords = <<>>

stripped_keywords(keywords) ==
    AsTuple([i \in 1..Len(keywords) |-> strip(keywords[i])])
\* line 31
lowered_keywords(keywords) ==
    AsTuple([i \in 1..Len(keywords) |-> strip(lower(keywords[i]))])

\* lines 34-36: any(keyword in details for keyword in lowered_keywords)
Matches(details, keywords) ==
    LET lk == lowered_keywords(keywords)
        dt == strip(lower(details))
    IN  \E i \in 1..Len(lk) : Contains(lk[i], dt)

AssignIfUncategorized(row, category) ==
    IF row.Category = Uncategorized THEN [row EXCEPT !.Category = category] ELSE row
\* line 37: df.at[idx, "Category"] = category
Assign(row, category) == [row EXCEPT !.Category = category]

\* lines 28-37: one turn of the loop over the categories
CategoryPass(d, category, keywords) ==
    IF Skipped(category, keywords) THEN d
    ELSE AsTuple([i \in 1..Len(d) |->
            IF Matches(d[i].Details, keywords) THEN Assign(d[i], category) ELSE d[i]])

\* the rows line 37 writes in that turn
PassWrites(d, category, keywords) ==
    IF Skipped(category, keywords) THEN {}
    ELSE {<<i, category>> : i \in {j \in 1..Len(d) : Matches(d[j].Details, keywords)}}

RECURSIVE CategoryLoop(_, _)
CategoryLoop(d, cats) ==
    IF cats = <<>> THEN d
    ELSE CategoryLoop(CategoryPass(d, cats[1][1], cats[1][2]), Tail(cats))

RECURSIVE LoopWrites(_, _)
LoopWrites(d, cats) ==
    IF cats = <<>> THEN {}
    ELSE PassWrites(d, cats[1][1], cats[1][2])
         \cup LoopWrites(CategoryPass(d, cats[1][1], cats[1][2]), Tail(cats))

\* a categorizer that re-matches only the rows that came in uncategorized
categorize_only_uncategorized(d, cats) ==
    LET done == CategoryLoop(ResetCategory(d), cats)
    IN  AsTuple([i \in 1..Len(d) |->
            IF d[i].Category = Uncategorized THEN done[i]
            ELSE [d[i] EXCEPT !.Category = Uncategorized]])
\* lines 24-39
categorize_transactions(d, cats) == CategoryLoop(ResetCategory(d), cats)

\* the (row, category) pairs line 37 writes during categorize_transactions
categorize_writes(d, cats) == LoopWrites(ResetCategory(d), cats)

(***************************************************************************)
(* load_transactions. An uploaded CSV is [present, status, rows]: whether  *)
(* a file is in the uploader, whether it has a Status column, and its raw  *)
(* rows [Date, Details, Amount, Currency, DC, Status], every cell text.    *)
(***************************************************************************)
DigitSet == {Digits[i] : i \in DOMAIN Digits}
DigitValue == [c \in DigitSet |-> (CHOOSE i \in DOMAIN Digits : Digits[i] = c) - 1]
IsDigit(c) == c \in DigitSet
DigitVal(c) == DigitValue[c]

RECURSIVE ParseInt(_)
ParseInt(s) ==
    IF s = <<>> THEN 0
    ELSE 10 * ParseInt(SubSeq(s, 1, Len(s) - 1)) + DigitVal(s[Len(s)])

\* text that parses as a decimal number: digits, at most one point
IsFloatText(t) ==
    /\ \A i \in 1..Len(t) : IsDigit(t[i]) \/ t[i] = "."
    /\ Cardinality({i \in 1..Len(t) : t[i] = "."}) <= 1
    /\ \E i \in 1..Len(t) : IsDigit(t[i])

\* float(t), in hundredths
ParseHundredths(t) ==
    LET dots == {i \in 1..Len(t) : t[i] = "."}
        dot  == IF dots = {} THEN Len(t) + 1 ELSE SetMin(dots)
        ip   == SubSeq(t, 1, dot - 1)
        fp   == SubSeq(t, dot + 1, Len(t))
        f2   == IF Len(fp) = 0 THEN 0
                ELSE IF Len(fp) = 1 THEN 10 * DigitVal(fp[1])
                ELSE 10 * DigitVal(fp[1]) + DigitVal(fp[2])
    IN  100 * ParseInt(ip) + f2

IsCommaChar(c) == c # ","
\* line 47: .str.replace(",", "")
ReplaceCommas(t) == SelectSeq(t, IsCommaChar)

\* pd.read_csv, line 43: a column whose every cell is a number is read as
\* float64, any other column as text (a CSV with no rows gives text columns)
AmountIsFloatColumn(rows) ==
    rows # <<>> /\ \A i \in 1..Len(rows) : IsFloatText(rows[i].Amount)

RECURSIVE SplitWords(_, _)
\* the whitespace-separated words of s, cur being the word under way
SplitWords(s, cur) ==
    IF s = <<>> THEN (IF cur = <<>> THEN <<>> ELSE <<cur>>)
    ELSE IF Head(s) \in Whitespace
         THEN (IF cur = <<>> THEN <<>> ELSE <<cur>>) \o SplitWords(Tail(s), <<>>)
         ELSE SplitWords(Tail(s), Append(cur, Head(s)))

MonthNames == << <<"j","a","n">>, <<"f","e","b">>, <<"m","a","r">>, <<"a","p","r">>,
                 <<"m","a","y">>, <<"j","u","n">>, <<"j","u","l">>, <<"a","u","g">>,
                 <<"s","e","p">>, <<"o","c","t">>, <<"n","o","v">>, <<"d","e","c">> >>

\* line 50: the text matches "%d %b %Y"
IsDate(t) ==
    LET w == SplitWords(t, <<>>) IN
    /\ Len(w) = 3
    /\ Len(w[1]) \in {1, 2} /\ \A i \in 1..Len(w[1]) : IsDigit(w[1][i])
    /\ ParseInt(w[1]) \in 1..31
    /\ InList(lower(w[2]), MonthNames)
    /\ Len(w[3]) = 4 /\ \A i \in 1..Len(w[3]) : IsDigit(w[3][i])

\* line 50: pd.to_datetime(..., format="%d %b %Y")
ParseDate(t) ==
    LET w == SplitWords(t, <<>>) IN
    [day |-> ParseInt(w[1]),
     month |-> CHOOSE m \in DOMAIN MonthNames : MonthNames[m] = lower(w[2]),
     year |-> ParseInt(w[3])]

IsSettled(row) == row.Status = "SETTLED"

\* lines 47-50 for one row
TypedRow(raw) ==
    [Date |-> ParseDate(raw.Date), Details |-> raw.Details,
     Amount |-> ParseHundredths(ReplaceCommas(raw.Amount)), DC |-> raw.DC,
     Status |-> raw.Status, Category |-> Uncategorized]

\* lines 43-54: [ok, value]; not ok is an exception, which line 57 catches
normalize(csv) ==
    IF AmountIsFloatColumn(csv.rows)
    THEN [ok |-> FALSE, value |-> <<>>]        \* .str on a float64 column
    ELSE IF \E i \in 1..Len(csv.rows) : ~IsFloatText(ReplaceCommas(csv.rows[i].Amount))
    THEN [ok |-> FALSE, value |-> <<>>]        \* astype(float)
    ELSE IF \E i \in 1..Len(csv.rows) : ~IsDate(csv.rows[i].Date)
    THEN [ok |-> FALSE, value |-> <<>>]        \* pd.to_datetime
    ELSE LET typed == AsTuple([i \in 1..Len(csv.rows) |-> TypedRow(csv.rows[i])])
         IN  [ok |-> TRUE,
              value |-> IF csv.status THEN SelectSeq(typed, IsSettled) ELSE typed]

\* lines 41-59 on a file whose lines 43-54 gave table: [ok, value]; not ok
\* is the except branch, which returns None
load_transactions(table, cats) ==
    IF table.ok THEN [ok |-> TRUE, value |-> categorize_transactions(table.value, cats)]
    ELSE [ok |-> FALSE, value |-> <<>>]

IsDebit(row) == row.DC = "Debit"
\* line 81
debits_of(d) == SelectSeq(d, IsDebit)

RECURSIVE SumAmounts(_, _)
\* the sum of Amount over the rows of d whose Category is c
SumAmounts(d, c) ==
    IF d = <<>> THEN 0
    ELSE (IF Head(d).Category = c THEN Head(d).Amount ELSE 0) + SumAmounts(Tail(d), c)

\* line 104: groupby("Category")["Amount"].sum(), as the set of its rows
category_totals(debits) ==
    { <<c, SumAmounts(debits, c)>> : c \in {debits[i].Category : i \in 1..Len(debits)} }

(***************************************************************************)
(* The ruleset store and the feedback applier.                             *)
(***************************************************************************)
\* How a save_categories call ends: written; open() raised and the file is
\* as it was; open() truncated the file and json.dump raised before any of
\* it reached the file.
SaveOutcomes == {"ok", "open_failed", "truncated"}

SavedNothing(cats, f, outcome) == f
\* lines 20-22: the file after save_categories
SavedFile(cats, f, outcome) ==
    CASE outcome = "ok" -> json_dump(cats)
      [] outcome = "open_failed" -> f
      [] outcome = "truncated" -> <<>>

\* a load that leaves an empty ruleset behind when json.load raises
ScriptTopClearing(cats, f) ==
    IF f = Absent THEN [ok |-> TRUE, value |-> cats]
    ELSE LET r == json_load(f) IN
         IF r.ok THEN [ok |-> TRUE, value |-> r.value]
         ELSE [ok |-> FALSE, value |-> <<>>]
\* lines 16-18: [ok, value]; not ok is json.load raising, which ends the run
ScriptTop(cats, f) ==
    IF f = Absent THEN [ok |-> TRUE, value |-> cats]
    ELSE LET r == json_load(f) IN
         IF r.ok THEN [ok |-> TRUE, value |-> r.value]
         ELSE [ok |-> FALSE, value |-> cats]

AppendIfNonEmpty(keyword, keywords) == keyword # <<>>
\* line 63, given that the category exists
ShouldAppend(keyword, keywords) == keyword # <<>> /\ ~InList(keyword, keywords)

\* lines 61-68: [cats, file, res]; res is "True", "False", "KeyError" (line
\* 63 looking up a missing category) or "IOError" (save_categories raising)
add_keyword_to_category(cats, f, category, keyword, outcome) ==
    LET kw == strip(keyword) IN
    IF kw = <<>> THEN [cats |-> cats, file |-> f, res |-> "False"]
    ELSE IF ~HasKey(cats, category) THEN [cats |-> cats, file |-> f, res |-> "KeyError"]
    ELSE IF ~ShouldAppend(kw, Get(cats, category))
    THEN [cats |-> cats, file |-> f, res |-> "False"]
    ELSE LET cats2 == Put(cats, category, Append(Get(cats, category), kw))
         IN  [cats |-> cats2, file |-> SavedFile(cats2, f, outcome),
              res |-> IF outcome = "ok" THEN "True" ELSE "IOError"]

\* lines 164-171: the loop over the edited rows from row i on. st is
\* [cats, file, df, res, learned]; a raising save ends the loop.
RECURSIVE SaveLoop(_, _, _, _)
SaveLoop(st, edits, i, outcome) ==
    IF i > Len(st.df) \/ st.res = "IOError" THEN st
    ELSE IF edits[i] = st.df[i].Category THEN SaveLoop(st, edits, i + 1, outcome)
    ELSE LET r == add_keyword_to_category(st.cats, st.file, edits[i],
                                          st.df[i].Details, outcome)
         IN  SaveLoop([cats |-> r.cats, file |-> r.file,
                       df |-> [st.df EXCEPT ![i] = Assign(st.df[i], edits[i])],
                       res |-> IF r.res = "IOError" THEN "IOError"
                               ELSE IF r.res = "True" THEN "True" ELSE st.res,
                       learned |-> st.learned \cup {<<edits[i], st.df[i].Details>>}],
                      edits, i + 1, outcome)

(***************************************************************************)
(* The inputs of Spec.                                                     *)
(***************************************************************************)
Date1 == <<"0","1"," ","J","a","n"," ","2","0","2","5">>
DateIso == <<"2","0","2","5","-","0","1","-","0","1">>
Starbucks == <<"S","t","a","r","b","u","c","k","s"," ","D","o","w","n","t","o","w","n">>
PaddedShop == <<" ","S","h","o","p">>
Ops == <<"O","p","s">>
Blank == <<" ">>
Plain == <<"1","0",".","5","0">>
Grouped == <<"1",",","2","3","4",".","5","6">>
AED == <<"A","E","D">>

RawRow(date, details, amount, dc, status) ==
    [Date |-> date, Details |-> details, Amount |-> amount, Currency |-> AED,
     DC |-> dc, Status |-> status]

NoCsv == [present |-> FALSE, status |-> FALSE, rows |-> <<>>]
\* the scenario of the specification: one settled debit of 10.50
ScenarioCsv ==
    [present |-> TRUE, status |-> TRUE,
     rows |-> << RawRow(Date1, Starbucks, Plain, "Debit", "SETTLED") >>]
\* two settled debits, one amount with a grouping comma
GroupedCsv ==
    [present |-> TRUE, status |-> TRUE,
     rows |-> << RawRow(Date1, PaddedShop, Grouped, "Debit", "SETTLED"),
                 RawRow(Date1, Ops, Plain, "Debit", "SETTLED") >>]
\* a debit with blank details, a credit and a reversed debit; no Status
\* column, so the reversed row stays
BlankCsv ==
    [present |-> TRUE, status |-> FALSE,
     rows |-> << RawRow(Date1, Blank, Grouped, "Debit", "SETTLED"),
                 RawRow(Date1, Ops, Grouped, "Credit", "SETTLED") >>]

\* a row whose date is not in the day-month-year text format
IsoCsv ==
    [present |-> TRUE, status |-> TRUE,
     rows |-> << RawRow(DateIso, Ops, Grouped, "Debit", "SETTLED") >>]

CsvPool == {ScenarioCsv, GroupedCsv, BlankCsv, IsoCsv}

\* What the uploader holds: the file and, beside it, what lines 43-54 make of
\* it, which is the same in every run.
Uploaded(csv) == [csv |-> csv, table |-> normalize(csv)]
NoUpload == Uploaded(NoCsv)
Uploads == {Uploaded(csv) : csv \in CsvPool}
\* what is typed into "Create New Category"
NamePool == {Food, Shop, Uncategorized, Empty}

NoCall == [op |-> "none", cat |-> Empty, kw |-> Empty, res |-> "none",
           rep |-> FALSE, runs |-> 0, learned |-> {}]

(***************************************************************************)
(* Spec: the script runs. Streamlit runs the whole script for every        *)
(* interaction: lines 11-18, then main() with the pressed button.          *)
(***************************************************************************)
Init ==
    /\ categories = DefaultCategories
    /\ file = Absent
    /\ uploaded = NoUpload
    /\ df = <<>>
    /\ writes = {}
    /\ last = [NoCall EXCEPT !.op = "run", !.res = "ok"]

\* st.rerun() of line 197 is under way: no other interaction comes first
NoPending == last.res # "created"

Bounded(cats) == \A i \in 1..Len(cats) : Len(cats[i][2]) <= MaxKeywords

\* lines 76-84 of a run: [shown, res, debits]: whether the tabs (and their
\* buttons) are drawn, how load_transactions ended, and the run's debits_df,
\* which is what a run reads of st.session_state.debits_df (line 84 writes
\* it before line 104 or line 149 read it); no table when no tabs are drawn
main_load(up, cats) ==
    IF ~up.csv.present THEN [shown |-> FALSE, res |-> "ok", debits |-> <<>>]
    ELSE LET t == load_transactions(up.table, cats) IN
         IF ~t.ok THEN [shown |-> FALSE, res |-> "None", debits |-> <<>>]
         ELSE IF t.value = <<>> THEN [shown |-> FALSE, res |-> "empty", debits |-> <<>>]
         ELSE [shown |-> TRUE, res |-> "loaded", debits |-> debits_of(t.value)]

\* a new browser session: st.session_state is empty, lines 11-18 run
NewSession ==
    /\ NoPending
    /\ LET top == ScriptTop(DefaultCategories, file) IN
       /\ categories' = top.value
       /\ last' = [NoCall EXCEPT !.op = "run",
                                 !.res = IF top.ok THEN "ok" ELSE "JSONDecodeError"]
    /\ uploaded' = NoUpload
    /\ df' = <<>>
    /\ UNCHANGED <<file, writes>>

\* A script run is lines 11-18 and then main(). In the actions below top is
\* what lines 16-18 gave in this run (ScriptTop) and m what lines 76-84 gave
\* for the file in the uploader (main_load).

\* a script run with no button pressed
Rerun(top, m) ==
    /\ categories' = top.value
    /\ df' = IF top.ok THEN m.debits ELSE <<>>
    /\ last' = [NoCall EXCEPT !.op = "run",
                              !.res = IF top.ok THEN m.res ELSE "JSONDecodeError"]
    /\ UNCHANGED <<file, uploaded, writes>>

\* a file is put into st.file_uploader: lines 74-84
Upload(top, up) ==
    /\ NoPending
    /\ uploaded' = up
    /\ categories' = top.value
    /\ df' = IF top.ok THEN main_load(up, top.value).debits ELSE <<>>
    /\ last' = [NoCall EXCEPT !.op = "run",
                   !.res = IF top.ok THEN main_load(up, top.value).res
                           ELSE "JSONDecodeError"]
    /\ UNCHANGED <<file, writes>>

\* lines 193-199 with name in the text input, in a run that loaded cats and
\* whose save ends as outcome
CreateCategory(cats, name, outcome) ==
    IF name # <<>> /\ ~HasKey(cats, name)
    THEN /\ categories' = Put(cats, name, <<>>)
         /\ file' = SavedFile(Put(cats, name, <<>>), file, outcome)
         /\ last' = [NoCall EXCEPT !.op = "create", !.cat = name,
                        !.res = IF outcome = "ok" THEN "created" ELSE "IOError"]
    ELSE /\ outcome = "ok"
         /\ categories' = cats
         /\ file' = file
         /\ last' = [NoCall EXCEPT !.op = "create", !.cat = name,
                        !.res = IF HasKey(cats, name) THEN "duplicate" ELSE "ignored"]

\* "Add Category" is pressed: lines 191-199
AddCategory(top, m) ==
    /\ NoPending
    /\ top.ok
    /\ m.shown
    /\ df' = m.debits
    /\ \E name \in NamePool, outcome \in SaveOutcomes :
          CreateCategory(top.value, name, outcome)
    /\ UNCHANGED <<uploaded, writes>>

\* "Save Category Changes" is pressed, edits[i] being the category the
\* editor shows for row i: lines 163-173
SaveCategoryChanges(top, m) ==
    /\ NoPending
    /\ top.ok
    /\ m.shown
    /\ \E outcome \in SaveOutcomes :
       \E edits \in [1..Len(m.debits) -> {top.value[i][1] : i \in 1..Len(top.value)}] :
          LET st == SaveLoop([cats |-> top.value, file |-> file, df |-> m.debits,
                              res |-> "False", learned |-> {}], edits, 1, outcome)
          IN  /\ Bounded(st.cats)
              /\ categories' = st.cats
              /\ file' = st.file
              /\ df' = st.df
              /\ last' = [NoCall EXCEPT !.op = "save_changes", !.res = st.res,
                                        !.learned = st.learned]
    /\ UNCHANGED <<uploaded, writes>>

Next ==
    \/ NewSession
    \/ LET top == ScriptTop(categories, file)
           m   == main_load(uploaded, top.value)
       IN  \/ Rerun(top, m)
           \/ \E up \in Uploads : Upload(top, up)
           \/ AddCategory(top, m)
           \/ SaveCategoryChanges(top, m)

Spec == Init /\ [][Next]_vars

\* one row with the given details, as the categorizer is given it
RowOf(details) ==
    [Details |-> details, Category |-> Uncategorized, Amount |-> 0, DC |-> "Debit"]

\* what the next categorize_transactions run assigns to a row with these
\* details under the ruleset in memory
Recategorized(details) ==
    categorize_transactions(<<RowOf(details)>>, categories)[1].Category

\* The categories of ruleset cats that line 28 lets through and that have a
\* keyword which, lower-cased and trimmed, is a substring of the lower-cased,
\* trimmed details.
MatchingPositions(cats, details) ==
    {i \in 1..Len(cats) :
        /\ cats[i][1] # Uncategorized
        /\ cats[i][2] # <<>>
        /\ \E k \in 1..Len(cats[i][2]) :
              Contains(strip(lower(cats[i][2][k])), strip(lower(details)))}

PositionOf(cats, category) == CHOOSE i \in 1..Len(cats) : cats[i][1] = category

\* C2, as claimed: after "Save Category Changes", every row that was
\* overridden to a category C (add_keyword_to_category(C, details) having been
\* applied) is assigned C by the next categorize_transactions run under the
\* updated ruleset, whichever key of the ruleset C is.
C2_OverrideSticks ==
    last.op = "save_changes" =>
        \A p \in last.learned : Recategorized(p[2]) = p[1]

\* C2, amended: the next run assigns C when C is not "Uncategorized", the
\* details are not blank, and no category after C in the updated ruleset
\* matches the row.
C2_OverrideSticksUnlessOverruled ==
    last.op = "save_changes" =>
        \A p \in last.learned :
            (/\ p[1] # Uncategorized
             /\ strip(p[2]) # <<>>
             /\ \A i \in MatchingPositions(categories, p[2]) :
                   i <= PositionOf(categories, p[1]))
            => Recategorized(p[2]) = p[1]

\* An override to a category that is not the last of the ruleset was learnt
\* and saved, and the next run assigns that category.
C2_Witness ==
    /\ last.op = "save_changes"
    /\ last.res = "True"
    /\ \E p \in last.learned :
          /\ p[1] # Uncategorized
          /\ strip(p[2]) # <<>>
          /\ PositionOf(categories, p[1]) < Len(categories)
          /\ InList(strip(p[2]), Get(categories, p[1]))
          /\ Recategorized(p[2]) = p[1]

\* C3: after a category creation that succeeded or a learn that returned
\* True, categories.json parses to the ruleset in memory: the same
\* categories in the same order, each with the same keywords in order.
C3_PersistedEqualsMemory ==
    last.res \in {"True", "created"} =>
        /\ file # Absent
        /\ json_load(file).ok
        /\ json_load(file).value = categories

\* A learn succeeded on a ruleset of three categories, one of which holds
\* two keywords, and the file holds that ruleset.
C3_Witness ==
    /\ last.op = "save_changes"
    /\ last.res = "True"
    /\ Len(categories) = 3
    /\ \E i \in 1..Len(categories) : Len(categories[i][2]) = 2
    /\ json_load(file).value = categories

\* the rows of a CSV that line 54 keeps
SettledRows(csv) == IF csv.status THEN SelectSeq(csv.rows, IsSettled) ELSE csv.rows

\* every row has a day-month-year date and a decimal amount, with or without
\* grouping commas
WellFormed(csv) ==
    \A i \in 1..Len(csv.rows) :
        IsDate(csv.rows[i].Date) /\ IsFloatText(ReplaceCommas(csv.rows[i].Amount))

\* C6, as claimed: a run over a well-formed file does not end with
\* load_transactions returning None; it gives one transaction per settled row
\* with the amount's value, and the single settled debit of 10.50 gives debit
\* total 10.50 under the category it is assigned.
C6_WellFormedLoads ==
    (/\ last.op = "run"
     /\ last.res # "JSONDecodeError"
     /\ uploaded.csv.present
     /\ WellFormed(uploaded.csv))
    => /\ last.res \in {"loaded", "empty"}
       /\ LET t == load_transactions(uploaded.table, categories).value
              kept == SettledRows(uploaded.csv)
          IN  /\ Len(t) = Len(kept)
              /\ \A i \in 1..Len(t) :
                    t[i].Amount = ParseHundredths(ReplaceCommas(kept[i].Amount))
       /\ uploaded.csv = ScenarioCsv =>
             category_totals(df) = {<<Recategorized(Starbucks), 1050>>}

\* C9: "Uncategorized" is a category of the ruleset in every state.
C9_UncategorizedExists == HasKey(categories, Uncategorized)

\* A run loaded a saved ruleset of three categories, one with a keyword.
C9_Witness ==
    /\ last.op = "run"
    /\ file # Absent
    /\ json_load(file).ok
    /\ categories = json_load(file).value
    /\ Len(categories) = 3
    /\ \E i \in 1..Len(categories) : categories[i][2] # <<>>

(***************************************************************************)
(* SpecOps: the two operations on the ruleset, add_keyword_to_category and *)
(* the creation of lines 193-199, applied with drawn arguments to a drawn  *)
(* ruleset of the shape the script runs produce ("Uncategorized" first,    *)
(* keywords trimmed, not blank and not repeated), saved or never saved.    *)
(***************************************************************************)
OpsKeywords == {strip(PaddedShop), Ops}
OpsRulesets ==
    UNION { { <<<<Uncategorized, u>>>> \o [i \in 1..Len(ns) |-> <<ns[i], kl[i]>>] :
                u \in {l \in SeqsUpTo(OpsKeywords, CatMaxKeywords) : Distinct(l)},
                kl \in [1..Len(ns) ->
                         {l \in SeqsUpTo(OpsKeywords, CatMaxKeywords) : Distinct(l)}] } :
            ns \in {s \in SeqsUpTo({Food, Shop}, 2) : Distinct(s)} }

\* the arguments of a call add_keyword_to_category(category, keyword)
LearnCategories == {Uncategorized, Food, Shop}
LearnKeywords == {PaddedShop, Ops, Blank}

InitOps ==
    /\ categories \in OpsRulesets
    /\ file \in {json_dump(categories)} \cup
                (IF categories = DefaultCategories THEN {Absent} ELSE {})
    /\ uploaded = NoUpload
    /\ df = <<>>
    /\ writes = {}
    /\ last = NoCall

\* a call add_keyword_to_category(category, keyword), the first operation on
\* the drawn ruleset or the one after a first call
LearnCall ==
    /\ last.op = "none" \/ (last.op = "learn" /\ last.runs = 1)
    /\ \E category \in LearnCategories, keyword \in LearnKeywords,
          outcome \in SaveOutcomes :
          LET r == add_keyword_to_category(categories, file, category, keyword, outcome)
          IN  /\ Bounded(r.cats)
              /\ categories' = r.cats
              /\ file' = r.file
              /\ last' = [NoCall EXCEPT !.op = "learn", !.cat = category,
                             !.kw = keyword, !.res = r.res,
                             !.runs = last.runs + 1,
                             !.rep = (last.op = "learn" /\ last.cat = category
                                      /\ last.kw = keyword)]
    /\ UNCHANGED <<uploaded, df, writes>>

\* lines 193-199 on the drawn ruleset
CreateCall ==
    /\ last.op = "none"
    /\ \E name \in NamePool, outcome \in SaveOutcomes :
          CreateCategory(categories, name, outcome)
    /\ UNCHANGED <<uploaded, df, writes>>

NextOps == LearnCall \/ CreateCall

SpecOps == InitOps /\ [][NextOps]_vars

\* C4: a call of add_keyword_to_category on an existing category that repeats
\* the arguments of the call before it returns False and leaves the ruleset
\* and categories.json as that call left them; and a call returns True only
\* when the trimmed keyword is not empty and was not in the list, having
\* appended the trimmed keyword to that category's list.
C4_LearnIdempotent ==
    [][(last'.op = "learn" /\ HasKey(categories, last'.cat)) =>
          /\ last'.rep =>
                (last'.res = "False" /\ categories' = categories /\ file' = file)
          /\ last'.res = "True" =>
                /\ strip(last'.kw) # <<>>
                /\ ~InList(strip(last'.kw), Get(categories, last'.cat))
                /\ categories' = Put(categories, last'.cat,
                                     Append(Get(categories, last'.cat), strip(last'.kw)))
      ]_vars

\* A call repeated the one before it, whose keyword is in the list.
C4_Witness ==
    /\ last.op = "learn"
    /\ last.rep
    /\ last.res = "False"
    /\ HasKey(categories, last.cat)
    /\ InList(strip(last.kw), Get(categories, last.cat))

\* C5, as claimed: add_keyword_to_category with a category that is not a key
\* of the ruleset is an error, creating a category whose name exists is
\* rejected, and both leave the ruleset and categories.json as they were.
C5_InvalidRejected ==
    [][/\ (last'.op = "learn" /\ ~HasKey(categories, last'.cat)) =>
            (last'.res = "KeyError" /\ categories' = categories /\ file' = file)
       /\ (last'.op = "create" /\ HasKey(categories, last'.cat)) =>
            (last'.res = "duplicate" /\ categories' = categories /\ file' = file)
      ]_vars

\* C7, as claimed: when save_categories fails during a learn or a creation,
\* the ruleset in memory and categories.json are what they were before the
\* operation, and the operation does not report success.
C7_FailedSaveKeepsState ==
    [][last'.res = "IOError" =>
          (categories' = categories /\ file' = file
           /\ last'.res \notin {"True", "created"})]_vars

(***************************************************************************)
(* SpecCat: categorize_transactions as a function of its inputs. The       *)
(* ruleset and the table are drawn from bounded sets, rulesets of any      *)
(* shape json.load can return (any order, "Uncategorized" with keywords,   *)
(* keywords with capitals and blanks); Categorize runs the function on the *)
(* table in place, as load_transactions does.                              *)
(***************************************************************************)
CatNames == {Uncategorized, Food, Shop}
KeywordPool == { <<"o","p">>, <<" ","S","H","O","P"," ">>, <<" ">> }
CatDetails == { <<" ","S","h","o","p">>, <<"O","p","s">> }

CatRulesets ==
    UNION { { [i \in 1..Len(ns) |-> <<ns[i], kl[i]>>] :
                kl \in [1..Len(ns) ->
                         {l \in SeqsUpTo(KeywordPool, CatMaxKeywords) : Distinct(l)}] } :
            ns \in {s \in SeqsUpTo(CatNames, Cardinality(CatNames)) : Distinct(s)} }

CatRows == [Details : CatDetails, Category : {Uncategorized, Food},
            Amount : {100}, DC : {"Debit"}]

InitCat ==
    /\ categories \in CatRulesets
    /\ df \in SeqsUpTo(CatRows, MaxRows)
    /\ file = Absent
    /\ uploaded = NoUpload
    /\ writes = {}
    /\ last = NoCall

\* categorize_transactions(df) on the drawn table
Categorize ==
    /\ last.runs = 0
    /\ df' = categorize_transactions(df, categories)
    /\ writes' = categorize_writes(df, categories)
    /\ last' = [NoCall EXCEPT !.op = "categorize", !.runs = 1]
    /\ UNCHANGED <<categories, file, uploaded>>

\* categorize_transactions(df) on the table the first run returned
CategorizeAgain ==
    /\ last.runs = 1
    /\ df' = categorize_transactions(df, categories)
    /\ writes' = categorize_writes(df, categories)
    /\ last' = [NoCall EXCEPT !.op = "categorize", !.runs = 2]
    /\ UNCHANGED <<categories, file, uploaded>>

NextCat == Categorize \/ CategorizeAgain

SpecCat == InitCat /\ [][NextCat]_vars

LastMatch(cats, details) ==
    IF MatchingPositions(cats, details) = {} THEN Uncategorized
    ELSE cats[SetMax(MatchingPositions(cats, details))][1]

\* C1: after categorize_transactions every row carries the category of the
\* last category, in ruleset order, that is not "Uncategorized", has keywords
\* and has a keyword (lower-cased, trimmed) inside the row's lower-cased,
\* trimmed details; "Uncategorized" when there is none.
C1_LastMatchWins ==
    last.runs >= 1 =>
        \A i \in 1..Len(df) : df[i].Category = LastMatch(categories, df[i].Details)

\* Two categories match one row and the later one was assigned.
C1_Witness ==
    /\ last.runs >= 1
    /\ \E i \in 1..Len(df) :
          /\ Cardinality(MatchingPositions(categories, df[i].Details)) >= 2
          /\ df[i].Category =
                categories[SetMax(MatchingPositions(categories, df[i].Details))][1]

\* C8: no write of line 37 assigns "Uncategorized" or a category whose
\* keyword list is empty, and a row that ends "Uncategorized" was written by
\* no match: it carries the default of line 25.
C8_NeverMatchedInto ==
    last.runs >= 1 =>
        /\ \A w \in writes :
              /\ w[2] # Uncategorized
              /\ HasKey(categories, w[2])
              /\ Get(categories, w[2]) # <<>>
        /\ \A i \in 1..Len(df) :
              df[i].Category = Uncategorized => ~ \E w \in writes : w[1] = i

\* "Uncategorized" carries a keyword inside a row's details, a category
\* with no keywords exists, and the row stays "Uncategorized" by default.
C8_Witness ==
    /\ last.runs >= 1
    /\ HasKey(categories, Uncategorized)
    /\ \E c \in 1..Len(categories) : categories[c][2] = <<>>
    /\ \E i \in 1..Len(df) :
          /\ Matches(df[i].Details, Get(categories, Uncategorized))
          /\ df[i].Category = Uncategorized

\* C10: a second run of categorize_transactions over its own result, with the
\* ruleset unchanged, leaves every row's category as the first run set it.
C10_Idempotent ==
    [][(last.runs = 1 /\ last'.runs = 2 /\ categories' = categories)
          => df' = df]_vars

\* A second run happened over a table whose first run changed a category.
C10_Witness ==
    /\ last.runs >= 2
    /\ \E i \in 1..Len(df) : df[i].Category = Shop

====
